---- MODULE Spec2Model ----
(***************************************************************************)
(* The file-marker extension of src/src/MarkDecorationProvider.ts: the     *)
(* module-level Map fileMarks, its JSON file, the decoration event emitter *)
(* and the two commands fileMarker.markFile and fileMarker.clearMark, each *)
(* handler of the extension being one action.  The host (VS Code) is the   *)
(* environment: it invokes commands, answers or abandons the prompts,      *)
(* changes the active editor, lets writes fail, and lets time pass.        *)
(***************************************************************************)
EXTENDS Integers, Sequences, FiniteSets, TLC

\* ---------------------------------------------------------------- bounds
MaxTime == 2        \* Date.now() ranges over 1..MaxTime
MaxMarks == 1       \* fileMarker.markFile invocations with a target in one session

\* ------------------------------------------------------------ data model
READ == "read"
PARTIAL == "partial"
UNREAD == "unread"
FileMarkType == {READ, PARTIAL, UNREAD}

\* The one key for which `data[key] = value` on a plain object is not a
\* property definition.
ProtoKey == "__proto__"
Paths == {"/a.txt", ProtoKey}

NoUri == "<no uri>"            \* uri argument undefined / no active editor
NoItem == "<no item>"          \* quickPick.selectedItems[0] undefined
Undefined == "<undefined>"     \* showInputBox resolved with undefined
Notes == {"", "x"}
NoteAnswers == Notes \cup {Undefined}

FileMark(type, note, timestamp) ==
    [type |-> type, note |-> note, timestamp |-> timestamp]

\* A Map<string, FileMark> is a function whose domain is the set of its keys.
EmptyMap == << >>
MapSet(m, k, v) == [x \in (DOMAIN m) \cup {k} |-> IF x = k THEN v ELSE m[x]]
MapDeleteAll(m, k) == << >>
MapDelete(m, k) == [x \in (DOMAIN m) \ {k} |-> m[x]]
MapHas(m, k) == k \in DOMAIN m

\* messages shown through vscode.window
NoMsg == "none"
WarnNoFile == "warning: no file selected"
ErrSave == "error: cannot save marks"
ErrLoad == "error: cannot load marks"

\* --------------------------------------------------- the persisted file
\* The file is missing, or holds text.  Text is garbage (readFileSync or
\* JSON.parse throws on it), the JSON text null, or a JSON object, kept as
\* the set of its <<key, value>> members.
Missing == [state |-> "missing", members |-> {}]
Garbage == [state |-> "garbage", members |-> {}]
NullText == [state |-> "null", members |-> {}]
ObjectText(members) == [state |-> "object", members |-> members]

\* data[key] = value on a plain object {}: an ordinary key becomes an own
\* property; "__proto__" runs the prototype setter and adds no own property.
DataAssign(data, key, value) ==
    IF key = ProtoKey THEN data ELSE MapSet(data, key, value)

\* fileMarks.forEach((value, key) => { data[key] = value })
RECURSIVE BuildData(_, _, _)
BuildData(marks, keys, data) ==
    IF keys = {} THEN data
    ELSE LET k == CHOOSE x \in keys : TRUE
         IN BuildData(marks, keys \ {k}, DataAssign(data, k, marks[k]))

\* JSON.stringify(data, null, 2): the own enumerable properties of data
JSONstringify(data) == ObjectText({<<k, data[k]>> : k \in DOMAIN data})

\* JSON.parse of an object text creates one own property per member
ParsedProps(text) == [k \in {m[1] : m \in text.members} |->
                        (CHOOSE m \in text.members : m[1] = k)[2]]

WriteResults == {"ok", "failed"}

\* variant: a failed write also resets the map
saveMarksRollback(marks, dsk, res) ==
    LET text == ObjectText({<<k, marks[k]>> : k \in DOMAIN marks \ {ProtoKey}})
    IN [fileMarks |-> IF res = "ok" THEN marks ELSE << >>,
        disk |-> IF res = "ok" THEN text ELSE dsk,
        msg |-> IF res = "ok" THEN NoMsg ELSE ErrSave,
        save |-> IF res = "ok" THEN "ok" ELSE "failed"]

\* saveMarks(): the file is rewritten in full; when writeFileSync throws the
\* file keeps its content and an error message is shown.  fileMarks is only
\* read.
saveMarks(marks, dsk, res) ==
    LET text == JSONstringify(BuildData(marks, DOMAIN marks, EmptyMap))
    IN [fileMarks |-> marks,
        disk |-> IF res = "ok" THEN text ELSE dsk,
        msg |-> IF res = "ok" THEN NoMsg ELSE ErrSave,
        save |-> IF res = "ok" THEN "ok" ELSE "failed"]

\* variant: the catch block shows nothing
loadMarksSilent(marks, dsk) ==
    CASE dsk.state = "missing" -> [fileMarks |-> marks, msg |-> NoMsg]
      [] dsk.state = "garbage" -> [fileMarks |-> marks, msg |-> NoMsg]
      [] dsk.state = "null" -> [fileMarks |-> << >>, msg |-> NoMsg]
      [] OTHER -> [fileMarks |-> [k \in {m[1] : m \in dsk.members} |->
                                   (CHOOSE m \in dsk.members : m[1] = k)[2]],
                   msg |-> NoMsg]

\* loadMarks(): nothing when the file is missing; a throw of readFileSync or
\* JSON.parse is caught before the map is touched; a parsed null is caught
\* after fileMarks.clear(); an object replaces the map by its entries.
loadMarks(marks, dsk) ==
    CASE dsk.state = "missing" -> [fileMarks |-> marks, msg |-> NoMsg]
      [] dsk.state = "garbage" -> [fileMarks |-> marks, msg |-> ErrLoad]
      [] dsk.state = "null" -> [fileMarks |-> EmptyMap, msg |-> ErrLoad]
      [] OTHER -> [fileMarks |-> ParsedProps(dsk), msg |-> NoMsg]

\* ------------------------------------------------------------ the state
\* ------------------------------------------------------------ MarkManager
\* The label-based store of MarkManager.ts and the provider built on it.
\* The label literals are kept as code points followed by their ASCII text.
LabelCompleted == "U+2714 U+FE0F Completed"
LabelHalfway == "U+1F557 Halfway"
LabelUnread == "U+274C Unread"
Labels == {LabelCompleted, LabelHalfway, LabelUnread, "other"}

\* "constructor" is a name every plain object inherits from Object.prototype
ManagerPaths == {"/a.txt", "constructor", ProtoKey}

\* What a read of this.marks[key] can give: a record written by setMark,
\* undefined, or an object that is not a record (Object.prototype or one of
\* its members), which has no label, color or note.
ManagerMark(label, color, note) ==
    [kind |-> "mark", label |-> label, color |-> color, note |-> note]
NoManagerMark ==
    [kind |-> "undefined", label |-> Undefined, color |-> Undefined,
     note |-> Undefined]
NativeObject ==
    [kind |-> "native", label |-> Undefined, color |-> Undefined,
     note |-> Undefined]
ObjectPrototypeKeys == {"constructor"}

\* private marks = {}: a plain object, its own properties and its prototype
NewManager == [own |-> EmptyMap, proto |-> NativeObject]

VARIABLES
    phase,          \* "inactive", "active", "deactivated"
    fileMarks,      \* the Map fileMarks
    disk,           \* the file storageFile
    activeEditor,   \* vscode.window.activeTextEditor?.document.uri, by fsPath
    flows,          \* pending markFile invocations: their closures and prompts
    now,            \* Date.now()
    fired,          \* payloads the last handler fired on _onDidChangeFileDecorations
    invoked,        \* number of markFile invocations with a target so far
    last,           \* the handler that ran last: its inputs and what it did
    managerMarks    \* MarkManager.marks

vars == <<phase, fileMarks, disk, activeEditor, flows, now, fired, invoked, last,
         managerMarks>>

\* A markFile invocation: the closure of its handlers (filePath, the selected
\* item), the prompt it waits for, the time it was invoked at, and whether a
\* command invoked after it has been applied to its path in the meantime.
Idle == [st |-> "idle", path |-> NoUri, selected |-> NoItem, since |-> 0,
         late |-> FALSE]

\* A handler run: the markFile invocation it belongs to and the time of that
\* invocation (0 for the other handlers), its target, the user's answers,
\* whether the target had a record when it ran, the message it showed and
\* what its save did.
Event(op, id, path, type, note, since, late, had, msg, save) ==
    [op |-> op, id |-> id, path |-> path, type |-> type, note |-> note,
     since |-> since, late |-> late, had |-> had, msg |-> msg, save |-> save]

Quiet(op, id, path, type, since) ==
    Event(op, id, path, type, Undefined, since, FALSE, FALSE, NoMsg, "none")

\* the files a session may find at startup, written by an earlier session
OldMark == FileMark(READ, "x", 0)
InitialDisks ==
    {Missing, Garbage, NullText, ObjectText({<<"/a.txt", OldMark>>})}

Init ==
    /\ phase = "inactive"
    /\ fileMarks = EmptyMap
    /\ disk \in InitialDisks
    /\ activeEditor \in Paths \cup {NoUri}
    /\ flows = [i \in 1..MaxMarks |-> Idle]
    /\ now = 1
    /\ fired = << >>
    /\ invoked = 0
    /\ last = Quiet("init", 0, NoUri, NoItem, 0)
    /\ managerMarks = NewManager

\* ---------------------------------------------------- decoration events
UriSignal(p) == [kind |-> "uri", paths |-> {p}]
UrisSignal(ps) == [kind |-> "uris", paths |-> ps]

\* variant: the uri argument is ignored
updateDecorationsAll(marks, uri) ==
    IF DOMAIN marks # {} THEN <<UrisSignal(DOMAIN marks)>> ELSE << >>

\* variant: the array of marked uris is fired even when it is empty
updateDecorationsNoGuard(marks, uri) ==
    IF uri # NoUri THEN <<UriSignal(uri)>> ELSE <<UrisSignal(DOMAIN marks)>>
\* FileDecorationsProvider.updateDecorations(uri?): the payloads it fires
updateDecorations(marks, uri) ==
    IF uri # NoUri THEN <<UriSignal(uri)>>
    ELSE IF DOMAIN marks # {} THEN <<UrisSignal(DOMAIN marks)>>
    ELSE << >>

\* --------------------------------------------------- file decorations
\* The badge and tooltip literals of the source are not ASCII; each is kept
\* here as the sequence of its code points.
BadgeRead == "U+2705"                         \* white heavy check mark
BadgePartial == "U+1F7E0"                     \* large orange circle
BadgeUnread == "U+2757"                       \* heavy exclamation mark
TipRead == "U+5DF2 U+8BFB"
TipPartial == "U+90E8 U+5206 U+9605 U+8BFB"
TipUnread == "U+672A U+8BFB"
ColorRead == "fileMarker.read"
ColorPartial == "fileMarker.partial"
ColorUnread == "fileMarker.unread"

\* provideFileDecoration returned undefined
NoDecoration == [badge |-> Undefined, tooltip |-> Undefined, color |-> Undefined]

\* variant: the note is never appended to the tooltip
PresentationBare(mark) ==
    CASE mark.type = READ ->
           [badge |-> BadgeRead, tooltip |-> TipRead, color |-> ColorRead]
      [] mark.type = PARTIAL ->
           [badge |-> BadgePartial, tooltip |-> TipPartial, color |-> ColorPartial]
      [] mark.type = UNREAD ->
           [badge |-> BadgeUnread, tooltip |-> TipUnread, color |-> ColorUnread]
      [] OTHER -> [badge |-> "", tooltip |-> "", color |-> Undefined]

\* provideFileDecoration from `let badge = ''` on: the switch on mark.type,
\* then `if (mark.note) tooltip += ": " + mark.note`
Presentation(mark) ==
    LET base == CASE mark.type = READ ->
                       [badge |-> BadgeRead, tooltip |-> TipRead,
                        color |-> ColorRead]
                  [] mark.type = PARTIAL ->
                       [badge |-> BadgePartial, tooltip |-> TipPartial,
                        color |-> ColorPartial]
                  [] mark.type = UNREAD ->
                       [badge |-> BadgeUnread, tooltip |-> TipUnread,
                        color |-> ColorUnread]
                  [] OTHER -> [badge |-> "", tooltip |-> "", color |-> Undefined]
    IN IF mark.note # ""
       THEN [base EXCEPT !.tooltip = base.tooltip \o ": " \o mark.note]
       ELSE base

\* variant: a file marked unread is shown like a file without a mark
provideFileDecorationUnreadBare(marks, filePath) ==
    IF ~MapHas(marks, filePath) \/ marks[filePath].type = UNREAD
    THEN NoDecoration
    ELSE Presentation(marks[filePath])

\* FileDecorationsProvider.provideFileDecoration(uri), filePath = uri.fsPath.
\* It reads fileMarks and writes nothing, so it is an operator on the store.
provideFileDecoration(marks, filePath) ==
    IF ~MapHas(marks, filePath) THEN NoDecoration
    ELSE Presentation(marks[filePath])
\* ---------------------------------------------------------------- actions
\* activate(context): storageFile is set, the marks are loaded, the provider
\* and the commands are registered, every marked file is redrawn
Activate ==
    /\ phase = "inactive"
    /\ LET l == loadMarks(fileMarks, disk)
       IN /\ fileMarks' = l.fileMarks
          /\ fired' = updateDecorations(l.fileMarks, NoUri)
          /\ last' = Event("activate", 0, NoUri, NoItem, Undefined, 0, FALSE,
                           FALSE, l.msg, "none")
    /\ phase' = "active"
    /\ UNCHANGED <<disk, activeEditor, flows, now, invoked, managerMarks>>

\* const fileUri = uri || vscode.window.activeTextEditor?.document.uri
ResolveTarget(uri, active) == IF uri # NoUri THEN uri ELSE active

\* if (!fileUri) { showWarningMessage(...); return; }
HasTargetAlways(fileUri) == TRUE
HasTarget(fileUri) == fileUri # NoUri

NoTarget(op) ==
    Event(op, 0, NoUri, NoItem, Undefined, 0, FALSE, FALSE, WarnNoFile, "none")

\* fileMarker.markFile up to quickPick.show()
MarkFile(uri) ==
    /\ phase = "active"
    /\ LET target == ResolveTarget(uri, activeEditor)
       IN IF ~HasTarget(target)
          THEN /\ last' = NoTarget("markFile")
               /\ UNCHANGED <<flows, invoked>>
          ELSE /\ invoked < MaxMarks
               /\ flows' = [flows EXCEPT ![invoked + 1] =
                             [st |-> "pick", path |-> target, selected |-> NoItem,
                              since |-> now, late |-> FALSE]]
               /\ invoked' = invoked + 1
               /\ last' = Quiet("markFile", invoked + 1, target, NoItem, now)
    /\ fired' = << >>
    /\ UNCHANGED <<phase, fileMarks, disk, activeEditor, now, managerMarks>>

\* quickPick.onDidAccept up to the await of showInputBox
QuickPickAccept(i, item) ==
    /\ phase = "active"
    /\ flows[i].st = "pick"
    /\ flows' = IF item = NoItem THEN flows
                ELSE [flows EXCEPT ![i].st = "note", ![i].selected = item]
    /\ last' = Quiet("accept", i, flows[i].path, item, flows[i].since)
    /\ fired' = << >>
    /\ UNCHANGED <<phase, fileMarks, disk, activeEditor, now,
                 invoked, managerMarks>>

\* the quick pick is dismissed unanswered: onDidHide disposes it
QuickPickHide(i) ==
    /\ phase = "active"
    /\ flows[i].st = "pick"
    /\ flows' = [flows EXCEPT ![i] = Idle]
    /\ last' = Quiet("hide", i, flows[i].path, NoItem, flows[i].since)
    /\ fired' = << >>
    /\ UNCHANGED <<phase, fileMarks, disk, activeEditor, now,
                 invoked, managerMarks>>

\* variant: the answer is stored as it came
NoteOrEmptyRaw(note) == note

\* note || ''
NoteOrEmpty(note) == IF note = Undefined \/ note = "" THEN "" ELSE note

\* variant: an empty note keeps the note of the record being replaced
SetMarkMerge(marks, path, type, note, time) ==
    [x \in (DOMAIN marks) \cup {path} |->
        IF x # path THEN marks[x]
        ELSE [type |-> type,
              note |-> IF note \in {Undefined, ""} /\ path \in DOMAIN marks
                       THEN marks[path].note
                       ELSE IF note = Undefined THEN "" ELSE note,
              timestamp |-> time]]

\* fileMarks.set(filePath, {type: selected.value, note: note || '', timestamp: Date.now()})
SetMark(marks, path, type, note, time) ==
    MapSet(marks, path, FileMark(type, NoteOrEmpty(note), time))

\* variant: the file is written first and the event is fired only when the
\* write succeeded
InputBoxResolveSaveFirst(i, note, res) ==
    /\ phase = "active"
    /\ flows[i].st = "note"
    /\ LET f == flows[i]
           marks == SetMark(fileMarks, f.path, f.selected, note, now)
           s == saveMarks(marks, disk, res)
       IN /\ fileMarks' = s.fileMarks
          /\ fired' = IF s.save = "ok" THEN updateDecorations(marks, f.path)
                      ELSE << >>
          /\ disk' = s.disk
          /\ last' = Event("note", i, f.path, f.selected, note, f.since, f.late,
                           MapHas(fileMarks, f.path), s.msg, s.save)
          /\ flows' = [j \in 1..MaxMarks |->
                         IF j = i THEN Idle
                         ELSE IF flows[j].st # "idle" /\ flows[j].path = f.path /\ j < i
                              THEN [flows[j] EXCEPT !.late = TRUE]
                              ELSE flows[j]]
    /\ UNCHANGED <<phase, activeEditor, now, invoked, managerMarks>>

\* variant: the target is resolved again when the note prompt resolves
InputBoxResolveLate(i, note, res) ==
    /\ phase = "active"
    /\ flows[i].st = "note"
    /\ LET f == flows[i]
           path == ResolveTarget(activeEditor, f.path)
           marks == SetMark(fileMarks, path, f.selected, note, now)
           s == saveMarks(marks, disk, res)
       IN /\ fileMarks' = s.fileMarks
          /\ fired' = updateDecorations(marks, path)
          /\ disk' = s.disk
          /\ last' = Event("note", i, path, f.selected, note, f.since, f.late,
                           MapHas(fileMarks, path), s.msg, s.save)
          /\ flows' = [j \in 1..MaxMarks |->
                         IF j = i THEN Idle
                         ELSE IF flows[j].st # "idle" /\ flows[j].path = path /\ j < i
                              THEN [flows[j] EXCEPT !.late = TRUE]
                              ELSE flows[j]]
    /\ UNCHANGED <<phase, activeEditor, now, invoked, managerMarks>>
\* quickPick.onDidAccept after showInputBox resolved with `note`
InputBoxResolve(i, note, res) ==
    /\ phase = "active"
    /\ flows[i].st = "note"
    /\ LET f == flows[i]
           marks == SetMark(fileMarks, f.path, f.selected, note, now)
           s == saveMarks(marks, disk, res)
       IN /\ fileMarks' = s.fileMarks
          /\ fired' = updateDecorations(marks, f.path)
          /\ disk' = s.disk
          /\ last' = Event("note", i, f.path, f.selected, note, f.since, f.late,
                           MapHas(fileMarks, f.path), s.msg, s.save)
          /\ flows' = [j \in 1..MaxMarks |->
                        IF j = i THEN Idle
                        ELSE IF flows[j].st # "idle" /\ flows[j].path = f.path /\ j < i
                        THEN [flows[j] EXCEPT !.late = TRUE]
                        ELSE flows[j]]
    /\ UNCHANGED <<phase, activeEditor, now, invoked, managerMarks>>

\* fileMarker.clearMark
ClearMark(uri, res) ==
    /\ phase = "active"
    /\ LET target == ResolveTarget(uri, activeEditor)
       IN IF ~HasTarget(target)
          THEN /\ res = "ok"
               /\ last' = NoTarget("clearMark")
               /\ fired' = << >>
               /\ UNCHANGED <<fileMarks, disk, flows>>
          ELSE /\ flows' = [j \in 1..MaxMarks |->
                             IF flows[j].st # "idle" /\ flows[j].path = target
                             THEN [flows[j] EXCEPT !.late = TRUE]
                             ELSE flows[j]]
               /\ IF MapHas(fileMarks, target)
                  THEN LET marks == MapDelete(fileMarks, target)
                           s == saveMarks(marks, disk, res)
                       IN /\ fileMarks' = s.fileMarks
                          /\ fired' = updateDecorations(marks, target)
                          /\ disk' = s.disk
                          /\ last' = Event("clearMark", 0, target, NoItem, Undefined,
                                           0, FALSE, TRUE, s.msg, s.save)
                  ELSE /\ res = "ok"
                       /\ last' = Quiet("clearMark", 0, target, NoItem, 0)
                       /\ fired' = << >>
                       /\ UNCHANGED <<fileMarks, disk>>
    /\ UNCHANGED <<phase, activeEditor, now, invoked, managerMarks>>

\* deactivate()
Deactivate(res) ==
    /\ phase = "active"
    /\ LET s == saveMarks(fileMarks, disk, res)
       IN /\ fileMarks' = s.fileMarks
          /\ disk' = s.disk
          /\ last' = Event("deactivate", 0, NoUri, NoItem, Undefined, 0, FALSE,
                           FALSE, s.msg, s.save)
    /\ fired' = << >>
    /\ phase' = "deactivated"
    /\ UNCHANGED <<activeEditor, flows, now, invoked, managerMarks>>

\* the user switches editors or closes the last one: no handler runs
SetActiveEditor(a) ==
    /\ phase = "active"
    /\ a # activeEditor
    /\ activeEditor' = a
    /\ UNCHANGED <<phase, fileMarks, disk, flows, now, fired,
                 invoked, last, managerMarks>>

\* a millisecond passes: no handler runs
Tick ==
    /\ phase = "active"
    /\ now < MaxTime
    /\ now' = now + 1
    /\ UNCHANGED <<phase, fileMarks, disk, activeEditor, flows,
                 fired, invoked, last, managerMarks>>

Next ==
    \/ Activate
    \/ \E u \in Paths \cup {NoUri} : MarkFile(u)
    \/ \E i \in 1..MaxMarks, item \in FileMarkType \cup {NoItem} : QuickPickAccept(i, item)
    \/ \E i \in 1..MaxMarks : QuickPickHide(i)
    \/ \E i \in 1..MaxMarks, n \in NoteAnswers, r \in WriteResults : InputBoxResolve(i, n, r)
    \/ \E u \in Paths \cup {NoUri}, r \in WriteResults : ClearMark(u, r)
    \/ \E r \in WriteResults : Deactivate(r)
    \/ \E a \in Paths \cup {NoUri} : SetActiveEditor(a)
    \/ Tick

Spec == Init /\ [][Next]_vars

\* ------------------------------------------------- MarkManager methods
getLabelColor(label) ==
    CASE label = LabelCompleted -> "#00ff00"
      [] label = LabelHalfway -> "#ff9900"
      [] label = LabelUnread -> "#ff0000"
      [] OTHER -> "#000000"

\* obj[key] = value: "__proto__" replaces the prototype, any other key
\* defines or overwrites an own property
ObjectAssign(obj, key, value) ==
    IF key = ProtoKey THEN [obj EXCEPT !.proto = value]
    ELSE [obj EXCEPT !.own = MapSet(obj.own, key, value)]

\* obj[key]: "__proto__" reads the prototype; another key reads the own
\* property, else the property inherited from Object.prototype, else
\* undefined (no key of ManagerPaths is a field name of a record, so a record
\* installed as prototype adds nothing to inherit)
ObjectRead(obj, key) ==
    IF key = ProtoKey THEN obj.proto
    ELSE IF MapHas(obj.own, key) THEN obj.own[key]
    ELSE IF key \in ObjectPrototypeKeys THEN NativeObject
    ELSE NoManagerMark

setMark(manager, filePath, label, note) ==
    ObjectAssign(manager, filePath,
                 ManagerMark(label, getLabelColor(label), NoteOrEmpty(note)))

getMark(manager, filePath) == ObjectRead(manager, filePath)

\* MarkDecorationProvider.provideFileDecoration(uri), filePath = uri.fsPath
ManagerDecoration(manager, filePath) ==
    LET mark == getMark(manager, filePath)
    IN IF mark.kind = "undefined" THEN NoDecoration
       ELSE [badge |-> mark.label,
             tooltip |-> IF mark.note # Undefined /\ mark.note # ""
                         THEN mark.note ELSE mark.label,
             color |-> "editorGutter.modifiedBackground"]

\* a call of setMark; nothing else of the extension touches the manager
MarkManagerSetMark(filePath, label, note) ==
    /\ managerMarks' = setMark(managerMarks, filePath, label, note)
    /\ UNCHANGED <<phase, fileMarks, disk, activeEditor, flows, now, fired,
                   invoked, last>>

\* a manager on its own, as `new MarkManager()` leaves it
InitMarkManager ==
    /\ managerMarks = NewManager
    /\ phase = "inactive"
    /\ fileMarks = EmptyMap
    /\ disk = Missing
    /\ activeEditor = NoUri
    /\ flows = [i \in 1..MaxMarks |-> Idle]
    /\ now = 1
    /\ fired = << >>
    /\ invoked = 0
    /\ last = Quiet("init", 0, NoUri, NoItem, 0)

NextMarkManager ==
    \E p \in ManagerPaths, l \in Labels, n \in NoteAnswers :
        MarkManagerSetMark(p, l, n)

SpecMarkManager == InitMarkManager /\ [][NextMarkManager]_vars

\* ------------------------------------------------------------- the claims
\* What the claims say a command does, written without the operators above.
SuppliedNote(n) == IF n = Undefined THEN "" ELSE n
Marked(m) == DOMAIN m
HandlerRan == last' # last
Committed(e) == e.op = "note"
Cleared(e) == e.op = "clearMark" /\ e.path # NoUri

\* C1, first half: after a mark committed for path p with kind k and note n,
\* the lookup of p gives kind k, note n (empty when none was supplied) and a
\* timestamp not earlier than the invocation of the command and not in the
\* future.
C1_Lookup ==
    Committed(last) =>
        /\ last.path \in Marked(fileMarks)
        /\ fileMarks[last.path].type = last.type
        /\ fileMarks[last.path].note = SuppliedNote(last.note)
        /\ fileMarks[last.path].timestamp >= last.since
        /\ fileMarks[last.path].timestamp <= now

\* C1, second half: the record of p stays as written until a later mark or
\* clear of p runs (or the store is loaded at activation).
C1_Stays ==
    \A p \in Paths :
        (/\ p \in Marked(fileMarks)
         /\ (p \notin Marked(fileMarks') \/ fileMarks'[p] # fileMarks[p]))
        => /\ HandlerRan
           /\ (Committed(last') \/ Cleared(last'))
           /\ last'.path = p

\* C1: read-your-write: a committed set(p, k, n) is what a lookup of p
\* returns, exactly, until the next set(p) or clear(p).
C1_ReadYourWrite == [](C1_Lookup) /\ [][C1_Stays]_vars

\* C1 witness: a mark with note "x" committed one millisecond after its
\* invocation, and the clock has moved on since
C1_Witness ==
    /\ Committed(last) /\ last.note = "x" /\ last.since = 1
    /\ last.path \in Marked(fileMarks)
    /\ fileMarks[last.path].timestamp = 2
    /\ fileMarks[last.path].note = "x"

\* C2 (as claimed): abandoning the kind prompt or the note prompt of a mark
\* command leaves the store entry and the persisted file as they were.
C2_CancelWritesNothing ==
    [][(HandlerRan /\ (last'.op = "hide" \/ (Committed(last') /\ last'.note = Undefined)))
        => (fileMarks' = fileMarks /\ disk' = disk)]_vars

C4_DiskEqualsMemory ==
    (last.save = "ok") =>
        /\ disk.state = "object"
        /\ {m[1] : m \in disk.members} = Marked(fileMarks)
        /\ \A m \in disk.members : m[2] = fileMarks[m[1]]

\* C5: a failed save shows an error and leaves the map exactly as the
\* mutation made it: the new record for a mark, the entry removed for a
\* clear, nothing changed at shutdown.
C5_FailedSaveKeepsMemory ==
    [][(HandlerRan /\ last'.save = "failed") =>
        /\ last'.msg = ErrSave
        /\ CASE Committed(last') ->
                  /\ Marked(fileMarks') = Marked(fileMarks) \cup {last'.path}
                  /\ fileMarks'[last'.path] =
                       FileMark(last'.type, SuppliedNote(last'.note), now)
                  /\ \A q \in Marked(fileMarks) \ {last'.path} : fileMarks'[q] = fileMarks[q]
             [] Cleared(last') ->
                  /\ Marked(fileMarks') = Marked(fileMarks) \ {last'.path}
                  /\ \A q \in Marked(fileMarks') : fileMarks'[q] = fileMarks[q]
             [] OTHER -> fileMarks' = fileMarks
    ]_vars

\* C5 witness: a mark whose save failed, with another path still marked
C5_Witness ==
    /\ Committed(last) /\ last.save = "failed" /\ last.msg = ErrSave
    /\ last.path \in Marked(fileMarks)
    /\ Marked(fileMarks) # {last.path}

C7_Overwrite ==
    [][(HandlerRan /\ Committed(last') /\ last'.path \in Marked(fileMarks)) =>
        fileMarks'[last'.path] = FileMark(last'.type, SuppliedNote(last'.note), now)
    ]_vars

\* C7 witness: a set with an empty note over the record of an earlier set,
\* of another kind and with note "x"; the save failed, so the file still
\* shows the replaced record
C7_Witness ==
    /\ Committed(last) /\ last.had /\ last.save = "failed"
    /\ last.note = ""
    /\ last.path \in Marked(fileMarks)
    /\ fileMarks[last.path] = FileMark(UNREAD, "", 2)
    /\ disk = ObjectText({<<last.path, OldMark>>})

\* C8 (as claimed): saving the store and loading the file into an empty
\* store gives the store back: same keys, same kind, note and timestamp.
C8_RoundTrip ==
    loadMarks(EmptyMap, saveMarks(fileMarks, Missing, "ok").disk).fileMarks = fileMarks

\* C9: a mark or clear command invoked with no uri and no active editor
\* shows the warning and does nothing else: store, file and prompts are as
\* before and no signal is fired.
C9_NoTargetNoEffect ==
    [][(HandlerRan /\ last'.op \in {"markFile", "clearMark"} /\ last'.path = NoUri) =>
        /\ last'.msg = WarnNoFile
        /\ fileMarks' = fileMarks
        /\ disk' = disk
        /\ flows' = flows
        /\ fired' = << >>
    ]_vars

\* C9 witness: the warning of a mark command, with a record in the store and
\* a prompt of an earlier command still open
C9_Witness ==
    /\ last.op = "markFile" /\ last.path = NoUri /\ last.msg = WarnNoFile
    /\ activeEditor = NoUri
    /\ fileMarks # EmptyMap
    /\ \E i \in 1..MaxMarks : flows[i].st = "note"

\* C10: activation over a file that cannot be read or parsed ends with an
\* empty store and the load error shown, and the extension is active: a
\* mark command can be invoked.
C10_FailedLoadEmpty ==
    (last.op = "activate" /\ disk.state \in {"garbage", "null"}) =>
        /\ fileMarks = EmptyMap
        /\ last.msg = ErrLoad
        /\ phase = "active"
        /\ fired = << >>
        /\ ENABLED MarkFile("/a.txt")

\* C10 witness: the extension is active after loading an unparsable file
C10_Witness ==
    /\ last.op = "activate" /\ disk.state = "garbage"
    /\ last.msg = ErrLoad /\ phase = "active" /\ fileMarks = EmptyMap

\* C11 as stated: when a clear removes the record of a marked path p, the
\* lookup of p is absent afterwards and the signal emitted is the full
\* refresh, the one that names every currently marked path.
C11_ClearFullRefresh ==
    (Cleared(last) /\ last.had) =>
        /\ ~MapHas(fileMarks, last.path)
        /\ fired = <<UrisSignal(Marked(fileMarks))>>

\* C11 as the code has it: when a clear removes the record of a marked path
\* p, the lookup of p is absent afterwards and exactly one signal is emitted,
\* the one that names p alone; the paths still marked are not named by it.
C11_ClearSignalsPath ==
    (Cleared(last) /\ last.had) =>
        /\ ~MapHas(fileMarks, last.path)
        /\ fired = <<UriSignal(last.path)>>
        /\ fired[1].paths \cap Marked(fileMarks) = {}

\* a clear of "__proto__" has removed its record while "/a.txt" stays marked
C11_Witness ==
    /\ Cleared(last) /\ last.had /\ last.path = ProtoKey
    /\ Marked(fileMarks) = {"/a.txt"}
    /\ fired = <<UriSignal(ProtoKey)>>

\* C12 as stated: called with a path, updateDecorations emits one signal
\* naming exactly that path; called with no path (at activation) it emits
\* one signal naming exactly the keys of the store, the empty store included.
C12_AlwaysSignals ==
    /\ (Committed(last) \/ (Cleared(last) /\ last.had)) =>
           fired = <<UriSignal(last.path)>>
    /\ last.op = "activate" =>
           /\ Len(fired) = 1
           /\ fired[1].paths = Marked(fileMarks)

\* C12 without the empty store: called with a path, updateDecorations emits
\* one signal naming exactly that path; called with no path it emits one
\* signal naming exactly the keys of the store when the store has a key, and
\* no signal at all when the store is empty.
C12_SignalsMarked ==
    /\ (Committed(last) \/ (Cleared(last) /\ last.had)) =>
           fired = <<UriSignal(last.path)>>
    /\ last.op = "activate" =>
           fired = IF Marked(fileMarks) = {} THEN << >>
                   ELSE <<UrisSignal(Marked(fileMarks))>>

\* activation has found no file, loaded nothing, and fired nothing
C12_Witness ==
    /\ last.op = "activate" /\ disk = Missing
    /\ fileMarks = EmptyMap /\ fired = << >>

\* The three kinds as the source has them: badge, tooltip base, color token.
C13_Table(kind) ==
    CASE kind = "read" -> <<"U+2705", "U+5DF2 U+8BFB", "fileMarker.read">>
      [] kind = "partial" ->
           <<"U+1F7E0", "U+90E8 U+5206 U+9605 U+8BFB", "fileMarker.partial">>
      [] kind = "unread" -> <<"U+2757", "U+672A U+8BFB", "fileMarker.unread">>

C13_Present(r) ==
    [badge |-> C13_Table(r.type)[1],
     tooltip |-> IF r.note = "" THEN C13_Table(r.type)[2]
                 ELSE C13_Table(r.type)[2] \o ": " \o r.note,
     color |-> C13_Table(r.type)[3]]

C13_Alone(p, r) == MapSet(EmptyMap, p, r)

\* The tooltip bases as the table of section 4.2 words them.
C13_SpecTips(kind) ==
    CASE kind = "read" -> "Read"
      [] kind = "partial" -> "Partially read"
      [] kind = "unread" -> "Unread"

\* C13 as stated: the decoration of a marked path has the table's badge and
\* color for the kind of its record, and its tooltip is the table's tooltip
\* base ("Read", "Partially read", "Unread"), alone when the note is empty
\* and followed by ": " and the note otherwise.
C13_TableTooltips ==
    \A p \in Marked(fileMarks) :
        LET r == fileMarks[p]
            d == provideFileDecoration(fileMarks, p)
        IN /\ d.badge = C13_Table(r.type)[1]
           /\ d.color = C13_Table(r.type)[3]
           /\ d.tooltip = IF r.note = "" THEN C13_SpecTips(r.type)
                          ELSE C13_SpecTips(r.type) \o ": " \o r.note
\* C13 with the tooltip bases of the code: the decoration of a marked path is
\* the table's badge and color for the kind of its record, with the tooltip
\* base of the source (U+5DF2 U+8BFB for read, U+90E8 U+5206 U+9605 U+8BFB
\* for partial, U+672A U+8BFB for unread) alone when the note is empty and
\* followed by ": " and the note otherwise; the three kinds differ in
\* badge, in tooltip base and in color; and the decoration is the one the
\* same record gives in a store that holds nothing else and has no history.
C13_Presentation ==
    /\ \A p \in Marked(fileMarks) :
         /\ fileMarks[p].type \in FileMarkType
         /\ provideFileDecoration(fileMarks, p) = C13_Present(fileMarks[p])
         /\ provideFileDecoration(fileMarks, p)
              = provideFileDecoration(C13_Alone(p, fileMarks[p]), p)
    /\ \A k1, k2 \in FileMarkType : k1 # k2 =>
         LET d1 == provideFileDecoration(C13_Alone("/a.txt", FileMark(k1, "", now)), "/a.txt")
             d2 == provideFileDecoration(C13_Alone("/a.txt", FileMark(k2, "", now)), "/a.txt")
         IN /\ d1.badge # d2.badge
            /\ d1.tooltip # d2.tooltip
            /\ d1.color # d2.color

\* a record of kind partial with the note "x" is shown with the orange badge
\* and the tooltip base followed by ": x"
C13_Witness ==
    /\ MapHas(fileMarks, "/a.txt")
    /\ fileMarks["/a.txt"].type = PARTIAL
    /\ fileMarks["/a.txt"].note = "x"
    /\ provideFileDecoration(fileMarks, "/a.txt")
         = [badge |-> "U+1F7E0", tooltip |-> "U+90E8 U+5206 U+9605 U+8BFB: x",
            color |-> "fileMarker.partial"]

\* C14: in every reachable state the provider, asked for a path, returns no
\* decoration exactly when the path has no record, and otherwise the
\* presentation of the path's current record; a path marked unread gets the
\* unread badge, and a path whose record was just removed gets no decoration.
C14_ProviderMirrorsStore ==
    /\ \A p \in Paths :
         /\ provideFileDecoration(fileMarks, p) = NoDecoration
              <=> p \notin Marked(fileMarks)
         /\ p \in Marked(fileMarks) =>
              provideFileDecoration(fileMarks, p) = C13_Present(fileMarks[p])
         /\ (p \in Marked(fileMarks) /\ fileMarks[p].type = UNREAD) =>
              provideFileDecoration(fileMarks, p).badge = "U+2757"
    /\ (Cleared(last) /\ last.had) =>
         provideFileDecoration(fileMarks, last.path) = NoDecoration
    /\ Committed(last) =>
         provideFileDecoration(fileMarks, last.path).badge = C13_Table(last.type)[1]

\* "/a.txt" has just been marked unread and shows the unread decoration while
\* the unmarked "__proto__" shows none
C14_Witness ==
    /\ Committed(last) /\ last.path = "/a.txt" /\ last.type = UNREAD
    /\ provideFileDecoration(fileMarks, "/a.txt").badge = "U+2757"
    /\ provideFileDecoration(fileMarks, ProtoKey) = NoDecoration

C15_Changed(p) ==
    \/ (p \in Marked(fileMarks)) # (p \in Marked(fileMarks'))
    \/ /\ p \in Marked(fileMarks) /\ p \in Marked(fileMarks')
       /\ fileMarks'[p] # fileMarks[p]

\* C15 as stated: once the marks are loaded, the record of a path p changes
\* only in a step that is a committed set of p or a clear of p; a command on
\* another path, a prompt that was abandoned or cancelled, a save, a signal,
\* a change of the active editor and the passage of time leave it unchanged.
C15_OnlySetAndClear ==
    [][\A p \in Paths :
         (phase = "active" /\ C15_Changed(p)) =>
            /\ HandlerRan
            /\ last'.path = p
            /\ \/ Committed(last') /\ last'.note # Undefined
               \/ Cleared(last')
    ]_vars

\* C15 with the cancelled note prompt counted as a commit: the record of p
\* changes only in the run of the note-prompt continuation of a mark of p or
\* of a clear of p.
C15_OnlyCommitAndClear ==
    [][\A p \in Paths :
         (phase = "active" /\ C15_Changed(p)) =>
            /\ HandlerRan
            /\ last'.path = p
            /\ (Committed(last') \/ Cleared(last'))
    ]_vars

C16_FileIsStore ==
    /\ disk.state = "object"
    /\ {m[1] : m \in disk.members} = Marked(fileMarks)
    /\ \A m \in disk.members : m[2] = fileMarks[m[1]]

\* C16 as stated: before activation has loaded the marks no command can run
\* and nothing has been redrawn; after activation a missing file has given an
\* empty store and no message, a file holding a mapping has given a store
\* equal to that mapping, and the redraw of activation names every loaded
\* path once, in at most one signal; after shutdown the write of the store
\* was attempted and, when it succeeded, the file holds the store.
C16_StartupShutdown ==
    /\ phase = "inactive" =>
         /\ last.op = "init" /\ fired = << >> /\ fileMarks = EmptyMap
         /\ \A u \in Paths \cup {NoUri} :
              /\ ~ENABLED MarkFile(u)
              /\ \A r \in WriteResults : ~ENABLED ClearMark(u, r)
    /\ last.op = "activate" =>
         /\ disk = Missing => (fileMarks = EmptyMap /\ last.msg = NoMsg)
         /\ disk.state = "object" => (C16_FileIsStore /\ last.msg = NoMsg)
         /\ Len(fired) <= 1
         /\ UNION {fired[i].paths : i \in 1..Len(fired)} = Marked(fileMarks)
         /\ \A i \in 1..Len(fired) : fired[i].kind = "uris"
    /\ last.op = "deactivate" =>
         /\ last.save \in {"ok", "failed"}
         /\ last.save = "ok" => C16_FileIsStore

C18_InSync(file, marks) ==
    /\ file.state = "object"
    /\ {m[1] : m \in file.members} = Marked(marks)
    /\ \A m \in file.members : m[2] = marks[m[1]]

\* C18 as stated: when the file is out of step with the store, as after a
\* failed save, the next handler whose save succeeds (a mark, a clear or the
\* shutdown) leaves the file equal to the complete store; and a handler that
\* saves, successfully or not, removes no record but the one it clears.
C18_Resynchronises ==
    [][HandlerRan =>
         /\ (~C18_InSync(disk, fileMarks) /\ last'.save = "ok") =>
               C18_InSync(disk', fileMarks')
         /\ last'.save \in {"ok", "failed"} =>
               \A p \in Marked(fileMarks) :
                   p \in Marked(fileMarks') \/ (Cleared(last') /\ last'.path = p)
    ]_vars

\* C18 for stores without the key "__proto__": the same resynchronisation.
C18_ResynchronisesPlainKeys ==
    [][(HandlerRan /\ ProtoKey \notin Marked(fileMarks')) =>
         /\ (~C18_InSync(disk, fileMarks) /\ last'.save = "ok") =>
               C18_InSync(disk', fileMarks')
         /\ last'.save \in {"ok", "failed"} =>
               \A p \in Marked(fileMarks) :
                   p \in Marked(fileMarks') \/ (Cleared(last') /\ last'.path = p)
    ]_vars

C20_Color(label) ==
    CASE label = "U+2714 U+FE0F Completed" -> "#00ff00"
      [] label = "U+1F557 Halfway" -> "#ff9900"
      [] label = "U+274C Unread" -> "#ff0000"
      [] OTHER -> "#000000"

\* setMark has been called for p since the manager was made
C20_WasSet(p) ==
    IF p = ProtoKey THEN managerMarks.proto.kind = "mark"
    ELSE MapHas(managerMarks.own, p)

\* a call setMark(p, l, n): what getMark returns afterwards
C20_SetStep ==
    \A p \in ManagerPaths, l \in Labels, n \in NoteAnswers :
        MarkManagerSetMark(p, l, n) =>
            /\ getMark(managerMarks', p).label = l
            /\ getMark(managerMarks', p).color = C20_Color(l)
            /\ getMark(managerMarks', p).note = SuppliedNote(n)
            /\ \A q \in ManagerPaths \ {p} :
                   getMark(managerMarks', q) = getMark(managerMarks, q)

\* a path never set has no record and no decoration
C20_NeverSet ==
    \A p \in ManagerPaths :
        ~C20_WasSet(p) =>
            /\ getMark(managerMarks, p) = NoManagerMark
            /\ ManagerDecoration(managerMarks, p) = NoDecoration

\* C20 as stated: after setMark(p, label, note), getMark(p) returns the
\* label, the color of that label and the note (the empty string when none
\* was given), the records of the other paths are as before, and getMark of
\* a path never set returns no record, for which MarkDecorationProvider
\* returns no decoration.
C20_MarkManager == [](C20_NeverSet) /\ [][C20_SetStep]_vars

\* C20 without the names a plain object inherits: the same for setMark on
\* any path, and for a never-set path other than "constructor" and
\* "__proto__".
C20_MarkManagerOwnKeys ==
    /\ [][C20_SetStep]_vars
    /\ [](\A p \in ManagerPaths \ (ObjectPrototypeKeys \cup {ProtoKey}) :
            ~C20_WasSet(p) =>
                /\ getMark(managerMarks, p) = NoManagerMark
                /\ ManagerDecoration(managerMarks, p) = NoDecoration)

====
